---- MODULE Spec2Model ----
(***************************************************************************)
(* A model of the piecewise-linear curve library src/mod.ts: isMonotone,   *)
(* reduce, split, truncate, sum and the internal _sum2 / _interpolate.     *)
(*                                                                         *)
(* Numbers.  A JavaScript number is modelled as an extended rational       *)
(* <<n, d>> in lowest terms with d >= 0: d > 0 is the finite value n/d,    *)
(* <<1, 0>> is +Infinity, <<-1, 0>> is -Infinity and <<0, 0>> is NaN.      *)
(* The operators below follow IEEE-754 on the special values (Infinity -   *)
(* Infinity = NaN, 0 * Infinity = NaN, x / Infinity = 0, NaN is unordered  *)
(* and unequal to itself); finite arithmetic is exact, binary64 rounding   *)
(* is not modelled.                                                        *)
(***************************************************************************)
EXTENDS Integers, Sequences, FiniteSets, TLC

VARIABLES pc, op, args, ret, current, gap, i

vars == <<pc, op, args, ret, current, gap, i>>

----------------------------------------------------------------------------
(* Bounds of the checked inputs *)

\* longest curve passed to isMonotone, split and truncate
MaxLen == 3
\* longest curve passed to reduce
MaxReduceLen == 4
\* grid of the input coordinates: X in 0..MaxX, Y in 0..MaxY
MaxX == 3
MaxY == 1
\* total number of points of the three curves merged pairwise
MaxMergePoints == 4
\* longest list of curves passed to sum
MaxCurves == 6

----------------------------------------------------------------------------
(* Numbers *)

Abs(n) == IF n < 0 THEN -n ELSE n

Sign(n) == IF n < 0 THEN -1 ELSE IF n > 0 THEN 1 ELSE 0

RECURSIVE GCD(_, _)
GCD(a, b) == IF b = 0 THEN a ELSE GCD(b, a % b)

\* the number n/d in lowest terms; n/0 is an infinity or NaN
Norm(n, d) ==
    IF d = 0 THEN <<Sign(n), 0>>
    ELSE LET g == GCD(Abs(n), Abs(d))
             s == Sign(d)
         IN  <<(s * n) \div g, (s * d) \div g>>

Num(k) == <<k, 1>>

NaN == <<0, 0>>
POSITIVE_INFINITY == <<1, 0>>
NEGATIVE_INFINITY == <<-1, 0>>

IsNaN(a) == a = NaN

\* Number.isFinite
isFinite(a) == a[2] # 0

Neg(a) == <<-a[1], a[2]>>

\* a + b
Add(a, b) ==
    IF a[2] = 0 /\ b[2] = 0
    THEN (IF a = b THEN a ELSE NaN)
    ELSE Norm(a[1] * b[2] + b[1] * a[2], a[2] * b[2])

\* a - b
Sub(a, b) == Add(a, Neg(b))

\* a * b
Mul(a, b) == Norm(a[1] * b[1], a[2] * b[2])

\* 1 / a (the sign of a zero is not modelled)
Inv(a) == IF a[1] < 0 THEN <<-a[2], -a[1]>> ELSE <<a[2], a[1]>>

\* a / b
Div(a, b) == Mul(a, Inv(b))

\* a < b
Lt(a, b) ==
    IF IsNaN(a) \/ IsNaN(b) \/ a = b THEN FALSE
    ELSE IF a = NEGATIVE_INFINITY \/ b = POSITIVE_INFINITY THEN TRUE
    ELSE IF a = POSITIVE_INFINITY \/ b = NEGATIVE_INFINITY THEN FALSE
    ELSE a[1] * b[2] < b[1] * a[2]

\* a > b
Gt(a, b) == Lt(b, a)

\* a === b
StrictEq(a, b) == ~IsNaN(a) /\ ~IsNaN(b) /\ a = b

\* Math.min(a, b)
MathMin(a, b) ==
    IF IsNaN(a) \/ IsNaN(b) THEN NaN ELSE IF Lt(b, a) THEN b ELSE a

----------------------------------------------------------------------------
(* Points and arrays *)

\* the selectors of the independent and of the dependent coordinate
X == "x"
Y == "y"

\* a point of a caller's curve: the two coordinates and one more field
InPoint(xv, yv) == [x |-> Num(xv), y |-> Num(yv), tag |-> "extra"]

\* the object literal { [x]: xv, [y]: yv }
XY(x, xv, y, yv) == (x :> xv) @@ (y :> yv)

\* array.at(-1) of a non-empty array
Last(arr) == arr[Len(arr)]

----------------------------------------------------------------------------
(* isMonotone *)

RECURSIVE isMonotoneLoop(_, _, _, _)
isMonotoneLoop(curve, x, k, x0) ==
    IF k > Len(curve) THEN TRUE
    ELSE LET x1 == curve[k][x]
         IN  IF Lt(x1, x0) THEN FALSE
             ELSE isMonotoneLoop(curve, x, k + 1, x1)

\* variant: a repeated X is rejected (x1 <= x0 in place of x1 < x0)
RECURSIVE isMonotoneStrictLoop(_, _, _, _)
isMonotoneStrictLoop(curve, x, k, x0) ==
    IF k > Len(curve) THEN TRUE
    ELSE LET x1 == curve[k][x]
         IN  IF Lt(x1, x0) \/ StrictEq(x1, x0) THEN FALSE
             ELSE isMonotoneStrictLoop(curve, x, k + 1, x1)

isMonotoneStrict(curve, x) == isMonotoneStrictLoop(curve, x, 1, NEGATIVE_INFINITY)

isMonotone(curve, x) == isMonotoneLoop(curve, x, 1, NEGATIVE_INFINITY)

----------------------------------------------------------------------------
(* reduce *)

\* (x2 - x0) * (y1 - y0) !== (x1 - x0) * (y2 - y0)
NotCollinear(p0, p1, p2, x, y) ==
    ~StrictEq(Mul(Sub(p2[x], p0[x]), Sub(p1[y], p0[y])),
              Mul(Sub(p1[x], p0[x]), Sub(p2[y], p0[y])))

\* the for loop; k is the 1-based index of curve[i]
RECURSIVE reduceLoop(_, _, _, _, _)
reduceLoop(curve, x, y, k, reduced) ==
    IF k > Len(curve) - 1 THEN reduced
    ELSE reduceLoop(curve, x, y, k + 1,
             IF NotCollinear(curve[k - 1], curve[k], curve[k + 1], x, y)
             THEN Append(reduced, curve[k])
             ELSE reduced)

reduce(curve, x, y) ==
    IF Len(curve) > 0
    THEN Append(reduceLoop(curve, x, y, 2, <<curve[1]>>), Last(curve))
    ELSE <<>>

----------------------------------------------------------------------------
(* _interpolate *)

_interpolate(a, b, x, y, xval) ==
    LET x0 == a[x]
        y0 == a[y]
        x1 == b[x]
        y1 == b[y]
        dx == Sub(x1, x0)
        dy == Sub(y1, y0)
    IN  IF StrictEq(dx, Num(0)) THEN XY(x, xval, y, NaN)
        ELSE IF isFinite(x0)
             THEN XY(x, xval, y, Add(y0, Mul(Div(Sub(xval, x0), dx), dy)))
             ELSE XY(x, xval, y, y0)

----------------------------------------------------------------------------
(* split *)

\* variant: the left side takes the last, not the first, of the points at x0
splitLastMid(curve, x, y, x0) ==
    LET Moved(p) == XY(x, Sub(p[x], x0), y, p[y])
        Each(bin) == [k \in 1..Len(bin) |-> Moved(bin[k])]
        neg == Each(SelectSeq(curve, LAMBDA p : Lt(p[x], x0)))
        pos == Each(SelectSeq(curve, LAMBDA p : ~Lt(p[x], x0) /\ Gt(p[x], x0)))
        mid == Each(SelectSeq(curve, LAMBDA p : ~Lt(p[x], x0) /\ ~Gt(p[x], x0)))
    IN  IF Len(mid) = 0
        THEN IF Len(neg) > 0 /\ Len(pos) > 0
             THEN LET p == _interpolate(Last(neg), pos[1], x, y, Num(0))
                  IN  <<Append(neg, p), <<p>> \o pos>>
             ELSE <<neg, pos>>
        ELSE <<Append(neg, Last(mid)), <<Last(mid)>> \o pos>>

split(curve, x, y, x0) ==
    LET Moved(p) == XY(x, Sub(p[x], x0), y, p[y])
        Each(bin) == [k \in 1..Len(bin) |-> Moved(bin[k])]
        neg == Each(SelectSeq(curve, LAMBDA p : Lt(p[x], x0)))
        pos == Each(SelectSeq(curve, LAMBDA p : ~Lt(p[x], x0) /\ Gt(p[x], x0)))
        mid == Each(SelectSeq(curve, LAMBDA p : ~Lt(p[x], x0) /\ ~Gt(p[x], x0)))
    IN  IF Len(mid) = 0
        THEN IF Len(neg) > 0 /\ Len(pos) > 0
             THEN LET p == _interpolate(Last(neg), pos[1], x, y, Num(0))
                  IN  <<Append(neg, p), <<p>> \o pos>>
             ELSE <<neg, pos>>
        ELSE <<Append(neg, mid[1]), <<Last(mid)>> \o pos>>

----------------------------------------------------------------------------
(* truncate *)

\* variant: the left boundary is interpolated also when a point lies on it
\* (rhs[x] >= min in place of rhs[x] > min)
truncateInclusive(curve, x, y, min, max) ==
    LET Copy(p) == XY(x, p[x], y, p[y])
        Each(bin) == [k \in 1..Len(bin) |-> Copy(bin[k])]
        neg == Each(SelectSeq(curve, LAMBDA p : Lt(p[x], min)))
        pos == Each(SelectSeq(curve, LAMBDA p : ~Lt(p[x], min) /\ Gt(p[x], max)))
        mid0 == Each(SelectSeq(curve, LAMBDA p : ~Lt(p[x], min) /\ ~Gt(p[x], max)))
        mid1 == IF Len(neg) > 0
                THEN IF Len(mid0) = 0 /\ Len(pos) = 0 THEN mid0
                     ELSE LET rhs == IF Len(mid0) > 0 THEN mid0[1] ELSE pos[1]
                          IN  IF ~Lt(rhs[x], min)
                              THEN <<_interpolate(Last(neg), rhs, x, y, min)>> \o mid0
                              ELSE mid0
                ELSE mid0
        mid2 == IF Len(pos) > 0
                THEN IF Len(mid1) = 0 /\ Len(neg) = 0 THEN mid1
                     ELSE LET lhs == IF Len(mid1) > 0 THEN Last(mid1) ELSE Last(neg)
                          IN  IF Lt(lhs[x], max)
                              THEN Append(mid1, _interpolate(lhs, pos[1], x, y, max))
                              ELSE mid1
                ELSE mid1
    IN  mid2

truncate(curve, x, y, min, max) ==
    LET Copy(p) == XY(x, p[x], y, p[y])
        Each(bin) == [k \in 1..Len(bin) |-> Copy(bin[k])]
        neg == Each(SelectSeq(curve, LAMBDA p : Lt(p[x], min)))
        pos == Each(SelectSeq(curve, LAMBDA p : ~Lt(p[x], min) /\ Gt(p[x], max)))
        mid0 == Each(SelectSeq(curve, LAMBDA p : ~Lt(p[x], min) /\ ~Gt(p[x], max)))
        \* after the block of neg.length > 0
        mid1 == IF Len(neg) > 0
                THEN IF Len(mid0) = 0 /\ Len(pos) = 0 THEN mid0
                     ELSE LET rhs == IF Len(mid0) > 0 THEN mid0[1] ELSE pos[1]
                          IN  IF Gt(rhs[x], min)
                              THEN <<_interpolate(Last(neg), rhs, x, y, min)>> \o mid0
                              ELSE mid0
                ELSE mid0
        \* after the block of pos.length > 0
        mid2 == IF Len(pos) > 0
                THEN IF Len(mid1) = 0 /\ Len(neg) = 0 THEN mid1
                     ELSE LET lhs == IF Len(mid1) > 0 THEN Last(mid1) ELSE Last(neg)
                          IN  IF Lt(lhs[x], max)
                              THEN Append(mid1, _interpolate(lhs, pos[1], x, y, max))
                              ELSE mid1
                ELSE mid1
    IN  mid2

----------------------------------------------------------------------------
(* _sum2 *)

\* the sentinel { [x]: +Infinity, [y]: p0[y] }
AfterLast(p0, x, y) == XY(x, POSITIVE_INFINITY, y, p0[y])

\* one pass of the while loop per call; ia and jb are the cursors i and j
RECURSIVE sum2Loop(_, _, _, _, _, _, _, _, _, _, _)
sum2Loop(a, b, x, y, ia, jb, a0, b0, a1, b1, output) ==
    IF ~(ia < Len(a) \/ jb < Len(b)) THEN output
    ELSE LET x1 == MathMin(a1[x], b1[x])
             stepA == StrictEq(a1[x], x1)
             stepB == StrictEq(b1[x], x1)
             ya == IF stepA THEN a1[y] ELSE _interpolate(a0, a1, x, y, x1)[y]
             yb == IF stepB THEN b1[y] ELSE _interpolate(b0, b1, x, y, x1)[y]
             y1 == Add(Add(Num(0), ya), yb)
             ia2 == IF stepA THEN ia + 1 ELSE ia
             jb2 == IF stepB THEN jb + 1 ELSE jb
             a0n == IF stepA THEN a1 ELSE a0
             b0n == IF stepB THEN b1 ELSE b0
             a1n == IF stepA
                    THEN (IF ia2 = Len(a) THEN AfterLast(a1, x, y) ELSE a[ia2 + 1])
                    ELSE a1
             b1n == IF stepB
                    THEN (IF jb2 = Len(b) THEN AfterLast(b1, x, y) ELSE b[jb2 + 1])
                    ELSE b1
         IN  sum2Loop(a, b, x, y, ia2, jb2, a0n, b0n, a1n, b1n,
                      Append(output, XY(x, x1, y, y1)))

\* variant: when both curves have their next point at x1, only a's cursor moves
\* (else if in place of the second if)
RECURSIVE sum2OneCursorLoop(_, _, _, _, _, _, _, _, _, _, _)
sum2OneCursorLoop(a, b, x, y, ia, jb, a0, b0, a1, b1, output) ==
    IF ~(ia < Len(a) \/ jb < Len(b)) THEN output
    ELSE LET x1 == MathMin(a1[x], b1[x])
             stepA == StrictEq(a1[x], x1)
             stepB == ~stepA /\ StrictEq(b1[x], x1)
             ya == IF stepA THEN a1[y] ELSE _interpolate(a0, a1, x, y, x1)[y]
             yb == IF stepB THEN b1[y] ELSE _interpolate(b0, b1, x, y, x1)[y]
             y1 == Add(Add(Num(0), ya), yb)
             ia2 == IF stepA THEN ia + 1 ELSE ia
             jb2 == IF stepB THEN jb + 1 ELSE jb
             a0n == IF stepA THEN a1 ELSE a0
             b0n == IF stepB THEN b1 ELSE b0
             a1n == IF stepA
                    THEN (IF ia2 = Len(a) THEN AfterLast(a1, x, y) ELSE a[ia2 + 1])
                    ELSE a1
             b1n == IF stepB
                    THEN (IF jb2 = Len(b) THEN AfterLast(b1, x, y) ELSE b[jb2 + 1])
                    ELSE b1
         IN  sum2OneCursorLoop(a, b, x, y, ia2, jb2, a0n, b0n, a1n, b1n,
                               Append(output, XY(x, x1, y, y1)))

sum2OneCursor(a, b, x, y) ==
    LET a0 == XY(x, NEGATIVE_INFINITY, y, IF Len(a) > 0 THEN a[1][y] ELSE Num(0))
        b0 == XY(x, NEGATIVE_INFINITY, y, IF Len(b) > 0 THEN b[1][y] ELSE Num(0))
        a1 == XY(x, IF Len(a) > 0 THEN a[1][x] ELSE POSITIVE_INFINITY, y, a0[y])
        b1 == XY(x, IF Len(b) > 0 THEN b[1][x] ELSE POSITIVE_INFINITY, y, b0[y])
    IN  sum2OneCursorLoop(a, b, x, y, 0, 0, a0, b0, a1, b1, <<>>)

\* variant: a curve's contribution is always interpolated between its passed
\* and its next point, also when the next point lies at x1
RECURSIVE sum2InterpolatingLoop(_, _, _, _, _, _, _, _, _, _, _)
sum2InterpolatingLoop(a, b, x, y, ia, jb, a0, b0, a1, b1, output) ==
    IF ~(ia < Len(a) \/ jb < Len(b)) THEN output
    ELSE LET x1 == MathMin(a1[x], b1[x])
             stepA == StrictEq(a1[x], x1)
             stepB == StrictEq(b1[x], x1)
             ya == _interpolate(a0, a1, x, y, x1)[y]
             yb == _interpolate(b0, b1, x, y, x1)[y]
             y1 == Add(Add(Num(0), ya), yb)
             ia2 == IF stepA THEN ia + 1 ELSE ia
             jb2 == IF stepB THEN jb + 1 ELSE jb
             a0n == IF stepA THEN a1 ELSE a0
             b0n == IF stepB THEN b1 ELSE b0
             a1n == IF stepA
                    THEN (IF ia2 = Len(a) THEN AfterLast(a1, x, y) ELSE a[ia2 + 1])
                    ELSE a1
             b1n == IF stepB
                    THEN (IF jb2 = Len(b) THEN AfterLast(b1, x, y) ELSE b[jb2 + 1])
                    ELSE b1
         IN  sum2InterpolatingLoop(a, b, x, y, ia2, jb2, a0n, b0n, a1n, b1n,
                                   Append(output, XY(x, x1, y, y1)))

sum2Interpolating(a, b, x, y) ==
    LET a0 == XY(x, NEGATIVE_INFINITY, y, IF Len(a) > 0 THEN a[1][y] ELSE Num(0))
        b0 == XY(x, NEGATIVE_INFINITY, y, IF Len(b) > 0 THEN b[1][y] ELSE Num(0))
        a1 == XY(x, IF Len(a) > 0 THEN a[1][x] ELSE POSITIVE_INFINITY, y, a0[y])
        b1 == XY(x, IF Len(b) > 0 THEN b[1][x] ELSE POSITIVE_INFINITY, y, b0[y])
    IN  sum2InterpolatingLoop(a, b, x, y, 0, 0, a0, b0, a1, b1, <<>>)

_sum2(a, b, x, y) ==
    LET a0 == XY(x, NEGATIVE_INFINITY, y, IF Len(a) > 0 THEN a[1][y] ELSE Num(0))
        b0 == XY(x, NEGATIVE_INFINITY, y, IF Len(b) > 0 THEN b[1][y] ELSE Num(0))
        a1 == XY(x, IF Len(a) > 0 THEN a[1][x] ELSE POSITIVE_INFINITY, y, a0[y])
        b1 == XY(x, IF Len(b) > 0 THEN b[1][x] ELSE POSITIVE_INFINITY, y, b0[y])
    IN  sum2Loop(a, b, x, y, 0, 0, a0, b0, a1, b1, <<>>)

----------------------------------------------------------------------------
(* The inputs of the checked calls *)

SeqsUpTo(S, n) == UNION {[1..k -> S] : k \in 0..n}

GridPoints == {InPoint(xv, yv) : xv \in 0..MaxX, yv \in 0..MaxY}

\* a caller's assertion that a list is weakly increasing in X
Sorted(c) == \A k \in 1..(Len(c) - 1) : c[k].x[1] * c[k + 1].x[2] <= c[k + 1].x[1] * c[k].x[2]

\* the curves of src/test.ts and of "Test duplicated point collinearity"
TestLine == <<InPoint(0, 0), InPoint(1, 1), InPoint(2, 2)>>
TestSegment2 == <<InPoint(0, 0), InPoint(2, 2)>>
TestSegment3 == <<InPoint(0, 0), InPoint(3, 3)>>
TestDuplicated == <<InPoint(5, -2), InPoint(10, 0), InPoint(10, 0), InPoint(10, 5)>>
TestA == <<InPoint(5, 0), InPoint(6, 1)>>
TestB == <<InPoint(7, 0), InPoint(8, 1)>>
TestCurves == {TestLine, TestSegment2, TestSegment3, TestDuplicated}

\* any list of points, for isMonotone
Lists == SeqsUpTo(GridPoints, MaxLen) \cup TestCurves

\* the weakly monotone curves
Curves == {c \in SeqsUpTo(GridPoints, MaxLen) : Sorted(c)} \cup TestCurves
ReduceCurves == {c \in SeqsUpTo(GridPoints, MaxReduceLen) : Sorted(c)} \cup TestCurves

\* split locations and truncation bounds; a curve that does not span the grid
\* leaves them outside its domain
Cuts == 0..MaxX

\* the three curves of a pairwise merge
MergeXs == {0, 1, 2}
MergeYs == {0, 1}
MergePoints == {InPoint(xv, yv) : xv \in MergeXs, yv \in MergeYs}
MergeCurves == [n \in 0..MaxMergePoints |-> {c \in [1..n -> MergePoints] : Sorted(c)}]
MergeLens ==
    {l \in (0..MaxMergePoints) \X (0..MaxMergePoints) \X (0..MaxMergePoints) :
        l[1] + l[2] + l[3] <= MaxMergePoints}
MergeTriples == UNION {MergeCurves[l[1]] \X MergeCurves[l[2]] \X MergeCurves[l[3]] : l \in MergeLens}

\* the lists of curves passed to sum: the curves of "Test summation", the
\* empty curve, and a curve with a vertical segment and a segment that spans
\* the breakpoints of the other two
Ramp == <<InPoint(4, 2), InPoint(4, 0), InPoint(9, 1)>>
SumCurves == {<<>>, TestA, TestB, Ramp}
SumLists == SeqsUpTo(SumCurves, MaxCurves)

----------------------------------------------------------------------------
(* The calls *)

Init ==
    /\ pc = "idle"
    /\ op = "none"
    /\ args = <<>>
    /\ ret = <<>>
    /\ current = <<>>
    /\ gap = 0
    /\ i = 0

\* a call that runs to its return in one step
Returns(name, a, r) ==
    /\ pc' = "done"
    /\ op' = name
    /\ args' = a
    /\ ret' = r
    /\ UNCHANGED <<current, gap, i>>

IsMonotoneCall ==
    /\ pc = "idle"
    /\ \E curve \in Lists, x \in {X, Y} :
        Returns("isMonotone", [curve |-> curve, x |-> x], isMonotone(curve, x))

ReduceCall ==
    /\ pc = "idle"
    /\ \E curve \in ReduceCurves :
        Returns("reduce", [curve |-> curve], reduce(curve, X, Y))

SplitCall ==
    /\ pc = "idle"
    /\ \E curve \in Curves, x0 \in Cuts :
        Returns("split", [curve |-> curve, x0 |-> x0], split(curve, X, Y, Num(x0)))

TruncateCall ==
    /\ pc = "idle"
    /\ \E curve \in Curves, min \in Cuts, max \in Cuts :
        /\ min <= max
        /\ Returns("truncate", [curve |-> curve, min |-> min, max |-> max],
                   truncate(curve, X, Y, Num(min), Num(max)))

\* three curves combined by two pairwise merges, grouped to the left
MergeCall ==
    /\ pc = "idle"
    /\ \E t \in MergeTriples :
        LET ab == _sum2(t[1], t[2], X, Y)
        IN  Returns("_sum2", [a |-> t[1], b |-> t[2], c |-> t[3]],
                    [ab |-> ab, abc |-> _sum2(ab, t[3], X, Y)])

\* sum: const current = curves.concat(); let gap = current.length
SumCall ==
    /\ pc = "idle"
    /\ \E curves \in SumLists :
        /\ pc' = "sum_while"
        /\ op' = "sum"
        /\ args' = [curves |-> curves]
        /\ current' = curves
        /\ gap' = Len(curves)
        /\ UNCHANGED <<ret, i>>

\* while (gap > 1) { gap = (gap + 1) >> 1; for (let i = 0; ...
SumRound ==
    /\ pc = "sum_while"
    /\ gap > 1
    /\ gap' = (gap + 1) \div 2
    /\ i' = 0
    /\ pc' = "sum_for"
    /\ UNCHANGED <<op, args, ret, current>>

\* current[i] = _sum2(current[i], current.at(i + gap) ?? [], x, y); i++
SumStep ==
    /\ pc = "sum_for"
    /\ i < gap
    /\ LET other == IF i + gap < Len(current) THEN current[i + gap + 1] ELSE <<>>
       IN  current' = [current EXCEPT ![i + 1] = _sum2(current[i + 1], other, X, Y)]
    /\ i' = i + 1
    /\ pc' = IF i + 1 < gap THEN "sum_for" ELSE "sum_while"
    /\ UNCHANGED <<op, args, ret, gap>>

\* return current.at(0) ?? []
SumReturn ==
    /\ pc = "sum_while"
    /\ ~(gap > 1)
    /\ ret' = IF Len(current) > 0 THEN current[1] ELSE <<>>
    /\ pc' = "done"
    /\ current' = <<>>
    /\ gap' = 0
    /\ i' = 0
    /\ UNCHANGED <<op, args>>

\* the caller drops the result; the library keeps no state between calls
Reset ==
    /\ pc = "done"
    /\ pc' = "idle"
    /\ op' = "none"
    /\ args' = <<>>
    /\ ret' = <<>>
    /\ UNCHANGED <<current, gap, i>>

Next ==
    \/ IsMonotoneCall
    \/ ReduceCall
    \/ SplitCall
    \/ TruncateCall
    \/ MergeCall
    \/ SumCall
    \/ SumRound
    \/ SumStep
    \/ SumReturn
    \/ Reset

Spec == Init /\ [][Next]_vars

----------------------------------------------------------------------------
(* Properties.  The inputs of a call have integer coordinates <<k, 1>>; the *)
(* expected values are stated on the integers, by cross-multiplication,     *)
(* and not through the model's arithmetic.                                  *)

Returned(name) == pc = "done" /\ op = name

\* the integer coordinates of a point of an input curve
IX(p) == p.x[1]
IY(p) == p.y[1]

\* the point p restricted to its two coordinates
OnlyXY(p) == [x |-> p.x, y |-> p.y]

\* v is a finite number equal to the integer k
IsInt(v, k) == v = <<k, 1>>

\* v is the finite value at xq of the line through (xa, ya) and (xb, yb)
OnLine(v, xa, ya, xb, yb, xq) ==
    /\ v[2] > 0
    /\ v[1] * (xb - xa) = v[2] * (ya * (xb - xa) + (xq - xa) * (yb - ya))

\* the X of every point is a finite integer, weakly increasing along the list
IntMonotone(c) ==
    /\ \A k \in DOMAIN c : c[k].x[2] = 1
    /\ \A k \in 1..(Len(c) - 1) : c[k].x[1] <= c[k + 1].x[1]

RECURSIVE IsSubsequence(_, _)
IsSubsequence(r, c) ==
    IF Len(r) = 0 THEN TRUE
    ELSE IF Len(c) = 0 THEN FALSE
    ELSE IF Head(r) = Head(c) THEN IsSubsequence(Tail(r), Tail(c))
    ELSE IsSubsequence(r, Tail(c))

SetMax(S) == CHOOSE m \in S : \A k \in S : k <= m
SetMin(S) == CHOOSE m \in S : \A k \in S : m <= k

\* C7: isMonotone(C, x) returns true exactly when every adjacent pair of C is
\* weakly increasing in the inspected coordinate; in particular it returns
\* true for the empty list and for every one-point list.
C7_IsMonotoneIffAdjacentOrdered ==
    Returned("isMonotone") =>
        LET c == args.curve
            x == args.x
        IN  /\ ret = (\A k \in 1..(Len(c) - 1) : c[k][x][1] <= c[k + 1][x][1])
            /\ (Len(c) <= 1 => ret = TRUE)

\* a list of three points with a repeated X is reported monotone
C7_Witness ==
    /\ Returned("isMonotone")
    /\ args.x = X
    /\ Len(args.curve) = 3
    /\ IX(args.curve[1]) = IX(args.curve[2])
    /\ IX(args.curve[2]) < IX(args.curve[3])
    /\ ret = TRUE

\* C2: reduce is idempotent: reducing the result of reduce again gives the
\* same sequence of points.
C2_ReduceIdempotent ==
    Returned("reduce") => reduce(ret, X, Y) = ret

\* C3: an interior point that is immediately duplicated at a real corner
\* survives reduce in one copy; the curve of "Test duplicated point
\* collinearity" reduces to its points 0, 1 and 3.
C3_DuplicatedCornerSurvives ==
    Returned("reduce") =>
        LET c == args.curve
        IN  /\ c = TestDuplicated => ret = <<c[1], c[2], c[4]>>
            /\ \A k \in 2..(Len(c) - 2) :
                  (/\ IX(c[k]) = IX(c[k + 1])
                   /\ IY(c[k]) = IY(c[k + 1])
                   /\ (IX(c[k + 2]) - IX(c[k - 1])) * (IY(c[k]) - IY(c[k - 1]))
                        # (IX(c[k]) - IX(c[k - 1])) * (IY(c[k + 2]) - IY(c[k - 1])))
                  => \E j \in DOMAIN ret : ret[j] = c[k]

\* C4: reduce(C) is a subsequence of C, of length at most n and at least
\* min(2, n), that starts with C[0] and ends with C[n-1] when n >= 1.
C4_ReduceSubsequence ==
    Returned("reduce") =>
        LET c == args.curve
            n == Len(c)
        IN  /\ IsSubsequence(ret, c)
            /\ Len(ret) <= n
            /\ Len(ret) >= (IF n < 2 THEN n ELSE 2)
            /\ n >= 1 => (ret[1] = c[1] /\ ret[Len(ret)] = c[n])

\* the indices of the points of c with X below, at and above the integer v
Below(c, v) == {k \in DOMAIN c : IX(c[k]) < v}
At(c, v) == {k \in DOMAIN c : IX(c[k]) = v}
Above(c, v) == {k \in DOMAIN c : IX(c[k]) > v}

\* v is the linear interpolation at xq of c between its last point before xq
\* and the point that follows it
Interpolates(v, c, xq) ==
    LET k == SetMax(Below(c, xq))
    IN  OnLine(v, IX(c[k]), IY(c[k]), IX(c[k + 1]), IY(c[k + 1]), xq)

\* C5: split(C, x0) = (lhs, rhs): lhs lies at X <= 0 and rhs at X >= 0, both
\* weakly monotone; for x0 within [first X, last X] of C, lhs ends and rhs
\* begins with a point at X = 0 carrying the Y of the first, respectively
\* last, input point at x0, or the linear interpolation of the two points
\* around x0 when none is at x0; otherwise nothing is synthesized, one side is
\* empty and the other is C with every X replaced by X - x0.
C5_SplitBoundary ==
    Returned("split") =>
        LET c == args.curve
            x0 == args.x0
            lhs == ret[1]
            rhs == ret[2]
            n == Len(c)
            moved == [k \in 1..n |-> [x |-> <<IX(c[k]) - x0, 1>>, y |-> c[k].y]]
            within == n > 0 /\ IX(c[1]) <= x0 /\ x0 <= IX(c[n])
        IN  /\ IntMonotone(lhs)
            /\ IntMonotone(rhs)
            /\ \A k \in DOMAIN lhs : lhs[k].x[1] <= 0
            /\ \A k \in DOMAIN rhs : rhs[k].x[1] >= 0
            /\ within =>
                  /\ Len(lhs) > 0
                  /\ Len(rhs) > 0
                  /\ IsInt(Last(lhs).x, 0)
                  /\ IsInt(rhs[1].x, 0)
                  /\ IF At(c, x0) # {}
                     THEN /\ Last(lhs).y = c[SetMin(At(c, x0))].y
                          /\ rhs[1].y = c[SetMax(At(c, x0))].y
                     ELSE /\ Interpolates(Last(lhs).y, c, x0)
                          /\ Interpolates(rhs[1].y, c, x0)
            /\ ~within =>
                  \/ lhs = <<>> /\ rhs = moved
                  \/ rhs = <<>> /\ lhs = moved

\* a split strictly between two points, where the synthesized Y is no integer
C5_Witness ==
    /\ Returned("split")
    /\ At(args.curve, args.x0) = {}
    /\ Below(args.curve, args.x0) # {}
    /\ Above(args.curve, args.x0) # {}
    /\ Last(ret[1]).y[2] = 2
    /\ ret[2][1] = Last(ret[1])

\* the properties of truncate that do not depend on when a point is
\* synthesized; newMin and newMax say whether the output has a point at the
\* bound that the input has not
TruncateShape(newMin, newMax) ==
    LET c == args.curve
        min == args.min
        max == args.max
        within == SelectSeq(c, LAMBDA p : min <= IX(p) /\ IX(p) <= max)
        kept == [k \in 1..Len(within) |-> OnlyXY(within[k])]
        first == IF newMin THEN 1 ELSE 0
    IN  /\ IntMonotone(ret)
        /\ \A k \in DOMAIN ret : min <= ret[k].x[1] /\ ret[k].x[1] <= max
        /\ Len(ret) = Len(kept) + Cardinality({v \in {min, max} : Cardinality(At(ret, v)) > Cardinality(At(c, v))})
        /\ SubSeq(ret, first + 1, first + Len(kept)) = kept
        /\ newMin => (IsInt(ret[1].x, min) /\ Interpolates(ret[1].y, c, min))
        /\ newMax => (IsInt(Last(ret).x, max) /\ Interpolates(Last(ret).y, c, max))

\* the output of truncate has a point at the bound v that the input has not
NewAt(v) == Cardinality(At(ret, v)) > Cardinality(At(args.curve, v))

\* C6 (as claimed): truncate(C, min, max) lies within [min, max], is weakly
\* monotone and contains every input point of [min, max] unchanged; a point at
\* X = min (X = max) is synthesized exactly when C has a point with X < min
\* (X > max) and a point with X > min (X < max), with the linearly
\* interpolated Y.
C6_TruncateAsClaimed ==
    Returned("truncate") =>
        LET c == args.curve
        IN  /\ NewAt(args.min) <=> (Below(c, args.min) # {} /\ Above(c, args.min) # {})
            /\ NewAt(args.max) <=> (Above(c, args.max) # {} /\ Below(c, args.max) # {})
            /\ TruncateShape(NewAt(args.min), NewAt(args.max))

\* C6 (amended): as above, but a point at X = min (X = max) is synthesized
\* exactly when C has a point with X < min (X > max), a point with X > min
\* (X < max) and no point with X = min (X = max).
C6_TruncateBoundary ==
    Returned("truncate") =>
        LET c == args.curve
        IN  /\ NewAt(args.min)
                 <=> (Below(c, args.min) # {} /\ Above(c, args.min) # {} /\ At(c, args.min) = {})
            /\ NewAt(args.max)
                 <=> (Above(c, args.max) # {} /\ Below(c, args.max) # {} /\ At(c, args.max) = {})
            /\ TruncateShape(NewAt(args.min), NewAt(args.max))

\* both bounds fall strictly between points, around a point that is kept:
\* two points are synthesized
C6_Witness ==
    /\ Returned("truncate")
    /\ args.min < args.max
    /\ NewAt(args.min)
    /\ NewAt(args.max)
    /\ Len(ret) = 2
    /\ ret[1].y[2] = 3

\* every point of the curve has exactly the fields X and Y
ExactlyXY(c) == \A k \in DOMAIN c : DOMAIN c[k] = {X, Y}

\* C8: every point returned by split, truncate and sum has exactly the two
\* fields X and Y, whatever other fields the input points carry, for lists
\* of every length passed to sum.
C8_OutputsOnlyXY ==
    /\ Returned("split") => (ExactlyXY(ret[1]) /\ ExactlyXY(ret[2]))
    /\ Returned("truncate") => ExactlyXY(ret)
    /\ Returned("sum") => ExactlyXY(ret)

NoNaN(c) == \A k \in DOMAIN c : c[k].y # NaN

\* C10: no Y in an output of split, truncate or sum is NaN, and none in a
\* curve held by sum's fold or produced by a pairwise merge: _interpolate,
\* whose NaN every later addition and interpolation keeps, is never given a
\* zero-width segment.
C10_NoNaN ==
    /\ Returned("split") => (NoNaN(ret[1]) /\ NoNaN(ret[2]))
    /\ Returned("truncate") => NoNaN(ret)
    /\ op = "sum" => \A k \in DOMAIN current : NoNaN(current[k])
    /\ Returned("sum") => NoNaN(ret)
    /\ Returned("_sum2") => (NoNaN(ret.ab) /\ NoNaN(ret.abc))

\* sum of three curves, one with a vertical segment and interpolated at the
\* breakpoints of the others, which are extrapolated at its own
C10_Witness ==
    /\ Returned("sum")
    /\ args.curves = <<TestA, Ramp, TestB>>
    /\ Len(ret) = 7
    /\ IsInt(ret[1].x, 4)
    /\ IsInt(ret[2].x, 4)
    /\ ret[3].y[2] = 5

\* the value at the integer xq of the function a curve stands for: constant
\* beyond its first and last breakpoint, linear in between, 0 for no points
ValueAt(c, xq) ==
    IF Len(c) = 0 THEN Num(0)
    ELSE IF xq <= IX(c[1]) THEN c[1].y
    ELSE IF xq >= IX(Last(c)) THEN Last(c).y
    ELSE LET k == SetMax({j \in DOMAIN c : IX(c[j]) <= xq})
         IN  IF IX(c[k]) = xq THEN c[k].y
             ELSE Add(c[k].y, Mul(Norm(xq - IX(c[k]), IX(c[k + 1]) - IX(c[k])),
                                  Sub(c[k + 1].y, c[k].y)))

RECURSIVE TotalAt(_, _)
TotalAt(cs, xq) ==
    IF Len(cs) = 0 THEN Num(0) ELSE Add(ValueAt(Head(cs), xq), TotalAt(Tail(cs), xq))

\* the X of the breakpoints of the curves, and those of vertical breakpoints
BreakXs(cs) == UNION {{IX(cs[n][k]) : k \in DOMAIN cs[n]} : n \in DOMAIN cs}
VerticalXs(cs) ==
    UNION {{IX(cs[n][k]) : k \in {j \in 1..(Len(cs[n]) - 1) : IX(cs[n][j]) = IX(cs[n][j + 1])}} :
             n \in DOMAIN cs}

\* the integers from one below the first to one above the last breakpoint
Probes(cs) ==
    IF BreakXs(cs) = {} THEN {0}
    ELSE (SetMin(BreakXs(cs)) - 1)..(SetMax(BreakXs(cs)) + 1)

\* C1: the curve returned by sum(curves) stands for the pointwise sum: at
\* every X that is no vertical breakpoint of an input, its value is the sum
\* of the values of the input curves there, each extended by constant
\* extrapolation and an empty curve counting as 0.
C1_SumIsPointwiseSum ==
    Returned("sum") =>
        \A xq \in Probes(args.curves) \ VerticalXs(args.curves) :
            ValueAt(ret, xq) = TotalAt(args.curves, xq)


====
